---- MODULE Spec2Model ----
(***************************************************************************)
(* Model of src/bot.py: the ticket bot's open-request path (schedule gate, *)
(* cooldown registry, channel creation), the verification workflow, and    *)
(* ticket closure with transcript archival.  Every coroutine is split at   *)
(* its await points: one action per segment that runs without suspension.  *)
(***************************************************************************)
EXTENDS Integers, Sequences, FiniteSets, Bags, TLC

\* ------------------------------------------------------------------------
\* Program constants (src/bot.py)
\* ------------------------------------------------------------------------
COOLDOWN_HOURS == 168
TICKET_START_HOUR_UTC == 14
TICKET_END_HOUR_UTC == 24
SATURDAY == 5
CHUNK_LIMIT == 4000

\* ------------------------------------------------------------------------
\* Bounds of the model
\* ------------------------------------------------------------------------
MaxInFlight == 2
MaxChannels == 2
MaxClosures == 2

\* Identities: the requesters, the bot itself, a member with the manage_guild
\* and manage_channels permissions
Users == {"u1"}
BotUser == "bot"
Admin == "admin"

\* The wall clock is observed at these instants, in hours since Monday 00:00
\* UTC of week 0: Saturday 13:00 (before the window), 14:00 and 15:00 (inside
\* it), Sunday 00:00 (after it) and Sunday 15:00 (the window's hours on another
\* weekday), then Saturday 14:00 and 15:00 of week 1 (COOLDOWN_HOURS after the
\* two instants inside the first window).
Instants ==
  {SATURDAY * 24 + h : h \in {13, 14, 15, 24}} \cup {(SATURDAY + 1) * 24 + 15}
    \cup {(7 + SATURDAY) * 24 + h : h \in {14, 15}}
FirstInstant == CHOOSE t \in Instants : \A s \in Instants : t <= s

VARIABLES
  now,                      \* datetime.now(utc), in hours
  TICKET_CREATION_STATUS,   \* the global creation flag
  cooldowns,                \* dict user id -> next allowed time
  channels,                 \* guild text channels named ticket-<owner>, by id
  nextChan,                 \* next channel id the platform hands out
  history,                  \* per channel id ever created: its messages, oldest first
  req,                      \* bag of create_new_ticket coroutines in flight
  okAt,                     \* per user: check times of the opens that created a
                            \* channel since the user's last remove_cooldown
  cls,                      \* bag of closure coroutines, in flight or ended, each
                            \* with what it sent to the log channel, in order
  logChannel,               \* whether bot.get_channel(TICKET_LOG_CHANNEL_ID) finds it
  apps,                     \* apps.json: app key -> final link
  v2_links,                 \* v2_links.json: app key -> second-step site
  verChan,                  \* messages of the verification channel, oldest first:
                            \* V1 panels (with their VerificationView) and V2 proofs
  feed,                     \* what the bot sent into ticket channels, in order,
                            \* but for the missing-proof notices
  notices,                  \* missing-proof notices the bot sent into ticket channels
  posts,                    \* bag of on_message coroutines in flight
  adm,                      \* bag of admin handler coroutines in flight
  started,                  \* messages, interactions and commands received so far
  panelChan,                \* messages of the ticket panel channel, oldest first
  nextMsg,                  \* next message id the platform hands out there
  setups,                   \* bag of setup_ticket_panel coroutines, in flight or ended
  dropdown                  \* per ticket channel: the AppSelect view of its welcome
                            \* message (options, the key it was locked to, and the
                            \* catalog link of that key when it was locked)

lifeVars == <<now, TICKET_CREATION_STATUS, cooldowns, channels, nextChan, history, req, okAt>>
closeVars == <<cls, logChannel>>
selVars == <<dropdown>>
panelVars == <<panelChan, nextMsg, setups>>
verVars == <<apps, v2_links, verChan, feed, notices, posts, adm, started>>
vars == <<lifeVars, closeVars, verVars, panelVars, selVars>>

\* ------------------------------------------------------------------------
\* Schedule gate
\* ------------------------------------------------------------------------
Weekday(t) == (t \div 24) % 7
Hour(t) == t % 24

\* Mutant of is_ticket_time_allowed: the window opens an hour early
is_ticket_time_allowed_EarlyStart(t) ==
  IF Weekday(t) # SATURDAY THEN FALSE
  ELSE IF TICKET_START_HOUR_UTC - 1 <= Hour(t) /\ Hour(t) < TICKET_END_HOUR_UTC THEN TRUE
  ELSE FALSE

\* is_ticket_time_allowed, evaluated at clock value t
is_ticket_time_allowed(t) ==
  IF Weekday(t) # SATURDAY THEN FALSE
  ELSE IF TICKET_START_HOUR_UTC <= Hour(t) /\ Hour(t) < TICKET_END_HOUR_UTC THEN TRUE
  ELSE FALSE

\* Mutant of GatePasses: the clock is not consulted
GatePasses_FlagOnly(t) == TICKET_CREATION_STATUS

\* line 263: the branch into the "system offline" reply is not taken
GatePasses(t) == TICKET_CREATION_STATUS /\ is_ticket_time_allowed(t)

\* ------------------------------------------------------------------------
\* Cooldown registry
\* ------------------------------------------------------------------------
\* Mutant of CooldownActive: the comparison of line 286 inverted
CooldownActive_Inverted(u, t) == u \in DOMAIN cooldowns /\ cooldowns[u] < t

\* line 286
CooldownActive(u, t) == u \in DOMAIN cooldowns /\ cooldowns[u] > t

\* line 302
ReserveCooldown(u, t) ==
  [x \in DOMAIN cooldowns \cup {u} |-> IF x = u THEN t + COOLDOWN_HOURS ELSE cooldowns[x]]

\* Mutant of DeleteCooldown: the entry is kept
DeleteCooldown_Kept(u) == cooldowns

\* line 747
DeleteCooldown(u) == [x \in DOMAIN cooldowns \ {u} |-> cooldowns[x]]

\* ------------------------------------------------------------------------
\* Coroutines in flight are kept as bags of records: two coroutines in the
\* same position with the same locals are two copies of one record.
\* ------------------------------------------------------------------------
One(r) == SetToBag({r})
Moved(B, r, r2) == (B (-) One(r)) (+) One(r2)

\* ------------------------------------------------------------------------
\* create_new_ticket
\* ------------------------------------------------------------------------
\* pc: the await the coroutine is suspended in.  t: the `now` of line 284.
\* rival: a concurrent request of the same requester has created a channel.
\* cleared: remove_cooldown ran for the requester since the request's check.
NewReq(u, pc, remaining) ==
  [pc |-> pc, user |-> u, t |-> now, remaining |-> remaining, chan |-> 0,
   rival |-> FALSE, cleared |-> FALSE]

PastChecks(r) == r.pc \in {"deferred", "creating", "welcoming"}

\* Channel ids still to be handed out cover every request that passed the checks.
ChannelBudget ==
  LET waiting == {r \in BagToSet(req) : r.pc \in {"deferred", "creating"}} IN
  nextChan - 1 + BagCardinality([r \in waiting |-> req[r]]) < MaxChannels

CanStart == BagCardinality(req) < MaxInFlight

\* Mutant of ReqGateClosed: the handler, which declares the flag global at
\* line 260, turns it off when it finds the gate closed
ReqGateClosed_ClearsFlag(u) ==
  /\ CanStart
  /\ ~GatePasses(now)
  /\ req' = req (+) One(NewReq(u, "closedSleep", 0))
  /\ TICKET_CREATION_STATUS' = FALSE
  /\ UNCHANGED <<now, cooldowns, channels, nextChan, history, okAt, closeVars, panelVars, selVars, verVars>>

\* lines 262-274: the gate is closed; the first reply is sent, then sleep(0.5)
ReqGateClosed(u) ==
  /\ CanStart
  /\ ~GatePasses(now)
  /\ req' = req (+) One(NewReq(u, "closedSleep", 0))
  /\ UNCHANGED <<now, TICKET_CREATION_STATUS, cooldowns, channels, nextChan, history, okAt, closeVars, panelVars, selVars, verVars>>

\* lines 277-280: the reply is edited to the "closed" embed; the coroutine ends
ReqGateClosedReply(r) ==
  /\ r.pc = "closedSleep"
  /\ req' = req (-) One(r)
  /\ UNCHANGED <<now, TICKET_CREATION_STATUS, cooldowns, channels, nextChan, history, okAt, closeVars, panelVars, selVars, verVars>>

\* lines 282-298: the cooldown is active; the reply with the remaining time is
\* being sent
ReqCooldownReject(u) ==
  /\ CanStart
  /\ GatePasses(now)
  /\ CooldownActive(u, now)
  /\ req' = req (+) One(NewReq(u, "rejecting", cooldowns[u] - now))
  /\ UNCHANGED <<now, TICKET_CREATION_STATUS, cooldowns, channels, nextChan, history, okAt, closeVars, panelVars, selVars, verVars>>

\* line 290 returns: the cooldown reply is out; the coroutine ends
ReqCooldownReply(r) ==
  /\ r.pc = "rejecting"
  /\ req' = req (-) One(r)
  /\ UNCHANGED <<now, TICKET_CREATION_STATUS, cooldowns, channels, nextChan, history, okAt, closeVars, panelVars, selVars, verVars>>

\* lines 282-300: both checks pass; the coroutine suspends in response.defer
ReqPass(u) ==
  /\ CanStart
  /\ GatePasses(now)
  /\ ~CooldownActive(u, now)
  /\ ChannelBudget
  /\ req' = req (+) One(NewReq(u, "deferred", 0))
  /\ UNCHANGED <<now, TICKET_CREATION_STATUS, cooldowns, channels, nextChan, history, okAt, closeVars, panelVars, selVars, verVars>>

\* lines 302-314: after the defer the cooldown is written with the `now` read
\* at line 284, and the coroutine suspends in create_text_channel
ReqReserve(r) ==
  /\ r.pc = "deferred"
  /\ cooldowns' = ReserveCooldown(r.user, r.t)
  /\ req' = Moved(req, r, [r EXCEPT !.pc = "creating"])
  /\ UNCHANGED <<now, TICKET_CREATION_STATUS, channels, nextChan, history, okAt, closeVars, panelVars, selVars, verVars>>

NewChannel(u) == [owner |-> u, created |-> now, closeButton |-> FALSE]

Rivalled(u, q) == IF PastChecks(q) /\ q.user = u THEN [q EXCEPT !.rival = TRUE] ELSE q

\* line 311 returns: the platform created the channel ticket-<user id>.  Every
\* other request of the same requester that has passed its checks and is still
\* in flight has a rival from now on.
ReqCreated(r) ==
  /\ r.pc = "creating"
  /\ channels' = [c \in DOMAIN channels \cup {nextChan} |->
                    IF c = nextChan THEN NewChannel(r.user) ELSE channels[c]]
  /\ history' = [c \in DOMAIN history \cup {nextChan} |->
                    IF c = nextChan THEN <<>> ELSE history[c]]
  /\ nextChan' = nextChan + 1
  /\ LET rest == req (-) One(r)
         F(q) == Rivalled(r.user, q)
     IN req' = BagOfAll(F, rest) (+) One([r EXCEPT !.pc = "welcoming", !.chan = nextChan])
  /\ okAt' = IF r.cleared THEN okAt ELSE [okAt EXCEPT ![r.user] = @ \cup {r.t}]
  /\ UNCHANGED <<now, TICKET_CREATION_STATUS, cooldowns, closeVars, panelVars, selVars, verVars>>

\* line 311 raises (discord.Forbidden and the like): no channel, the coroutine ends
ReqCreateFails(r) ==
  /\ r.pc = "creating"
  /\ req' = req (-) One(r)
  /\ UNCHANGED <<now, TICKET_CREATION_STATUS, cooldowns, channels, nextChan, history, okAt, closeVars, panelVars, selVars, verVars>>

\* The rendered length of the welcome message's transcript line
WelcomeLen == 110
Message(author, t, len) == [author |-> author, t |-> t, len |-> len]

\* lines 455-481: AppSelect(user) offers the keys load_apps() returns; nothing
\* is selected yet
AppSelect == [options |-> DOMAIN apps, locked |-> "", offered |-> ""]

\* lines 360-365: the welcome message (if the channel is still there) and the
\* "ticket created" follow-up; the coroutine ends
ReqWelcome(r) ==
  /\ r.pc = "welcoming"
  /\ history' = IF r.chan \in DOMAIN channels
                THEN [history EXCEPT ![r.chan] = Append(@, Message(BotUser, now, WelcomeLen))]
                ELSE history
  /\ dropdown' = IF r.chan \in DOMAIN channels
                 THEN [c \in DOMAIN dropdown \cup {r.chan} |->
                         IF c = r.chan THEN AppSelect ELSE dropdown[c]]
                 ELSE dropdown
  /\ req' = req (-) One(r)
  /\ UNCHANGED <<now, TICKET_CREATION_STATUS, cooldowns, channels, nextChan, okAt, closeVars, panelVars, verVars>>

\* ------------------------------------------------------------------------
\* remove_cooldown (lines 742-761)
\* ------------------------------------------------------------------------
Cleared(u, q) == IF q.user = u THEN [q EXCEPT !.cleared = TRUE] ELSE q

\* lines 744-759: the entry is deleted if there is one; otherwise only the
\* "No Active Cooldown Found" reply is sent
remove_cooldown(u) ==
  IF u \in DOMAIN cooldowns
  THEN /\ cooldowns' = DeleteCooldown(u)
       /\ okAt' = [okAt EXCEPT ![u] = {}]
       /\ LET F(q) == Cleared(u, q) IN req' = BagOfAll(F, req)
       /\ UNCHANGED <<now, TICKET_CREATION_STATUS, channels, nextChan, history, closeVars, panelVars, selVars, verVars>>
  ELSE UNCHANGED vars

\* ------------------------------------------------------------------------
\* The clock
\* ------------------------------------------------------------------------
Tick ==
  /\ \E t \in Instants :
       /\ t > now
       /\ \A s \in Instants : s > now => t <= s
       /\ now' = t
  /\ UNCHANGED <<TICKET_CREATION_STATUS, cooldowns, channels, nextChan, history, req, okAt, closeVars, panelVars, selVars, verVars>>

\* ------------------------------------------------------------------------
\* create_transcript (lines 185-208)
\* ------------------------------------------------------------------------
\* A message carries the length of its rendered text: the line of line 195 plus
\* one line per attachment (line 197).
LineLen(m) == m.len

\* len(current): every appended line is followed by "\n" (line 203)
RECURSIVE TextLen(_)
TextLen(chunk) == IF chunk = <<>> THEN 0 ELSE LineLen(Head(chunk)) + 1 + TextLen(Tail(chunk))

\* The loop of lines 194-203 over the remaining messages, then lines 205-206
RECURSIVE ChunkLoop(_, _, _)
\* Mutant of ChunkLoop: a flush starts the next chunk empty and loses the line
\* that caused it
ChunkLoop_LosesLine(msgs, chunks, current) ==
  IF msgs = <<>>
  THEN IF current # <<>> THEN Append(chunks, current) ELSE chunks
  ELSE LET m == Head(msgs)
           flush == TextLen(current) + LineLen(m) > CHUNK_LIMIT
       IN ChunkLoop(Tail(msgs),
                    IF flush THEN Append(chunks, current) ELSE chunks,
                    IF flush THEN <<>> ELSE Append(current, m))

ChunkLoop(msgs, chunks, current) ==
  IF msgs = <<>>
  THEN IF current # <<>> THEN Append(chunks, current) ELSE chunks
  ELSE LET m == Head(msgs)
           flush == TextLen(current) + LineLen(m) > CHUNK_LIMIT
       IN ChunkLoop(Tail(msgs),
                    IF flush THEN Append(chunks, current) ELSE chunks,
                    Append(IF flush THEN <<>> ELSE current, m))

\* transcript_chunks for the messages of the channel, oldest first
create_transcript(msgs) == ChunkLoop(msgs, <<>>, <<>>)

\* ------------------------------------------------------------------------
\* Closure: CloseTicketView.close_ticket, force_close, perform_ticket_closure
\* ------------------------------------------------------------------------
\* pc names the await a closure coroutine is suspended in, or how it ended
\* ("done": line 253 returned; "failed": an exception left the handler, raised
\* at `at`).  sent: what the coroutine sent to the log channel, in order.
NewClosure(c, who, via) ==
  [pc |-> "waiting", chan |-> c, closer |-> who, via |-> via, parts |-> <<>>, i |-> 0,
   meta |-> <<>>, sent |-> <<>>, at |-> "", reported |-> FALSE, deleteAttempted |-> FALSE]

\* lines 523-530: the close button is pressed in channel c; the countdown runs
close_ticket(c, who) ==
  /\ c \in DOMAIN channels
  /\ channels[c].closeButton
  /\ BagCardinality(cls) < MaxClosures
  /\ cls' = cls (+) One(NewClosure(c, who, "button"))
  /\ UNCHANGED <<lifeVars, logChannel, panelVars, selVars, verVars>>

\* lines 769-781: force_close on an existing channel named ticket-...
force_close(c, who) ==
  /\ c \in DOMAIN channels
  /\ BagCardinality(cls) < MaxClosures
  /\ cls' = cls (+) One(NewClosure(c, who, "force"))
  /\ UNCHANGED <<lifeVars, logChannel, panelVars, selVars, verVars>>

\* lines 532-534 / 783, 216-218: perform_ticket_closure is entered and suspends
\* in channel.history
CloseEnter(r) ==
  /\ r.pc = "waiting"
  /\ cls' = Moved(cls, r, [r EXCEPT !.pc = "history"])
  /\ UNCHANGED <<lifeVars, logChannel, panelVars, selVars, verVars>>

\* lines 221-222
Metadata(msgs, r) ==
  [kind |-> "meta",
   opener |-> IF msgs # <<>> THEN msgs[1].author ELSE r.closer,
   opened |-> IF msgs # <<>> THEN msgs[1].t ELSE now,
   closer |-> r.closer]

\* lines 188-208, 221-239: the history arrived; the chunks and the metadata
\* are computed
CloseTranscript(r) ==
  /\ r.pc = "history"
  /\ r.chan \in DOMAIN channels
  /\ cls' = Moved(cls, r, [r EXCEPT !.pc = "meta",
                                     !.parts = create_transcript(history[r.chan]),
                                     !.meta = Metadata(history[r.chan], r)])
  /\ UNCHANGED <<lifeVars, logChannel, panelVars, selVars, verVars>>

\* An exception raised at `at` leaves perform_ticket_closure and the handler:
\* close_ticket has no handler for it and force_close's try (line 785) wraps
\* only the follow-up, so nothing is reported to the invoker.
Raised(r, at, deleteAttempted) ==
  [r EXCEPT !.pc = "failed", !.at = at, !.reported = FALSE,
            !.deleteAttempted = deleteAttempted]

\* line 188 raises NotFound: the channel is gone
CloseHistoryFails(r) ==
  /\ r.pc = "history"
  /\ r.chan \notin DOMAIN channels
  /\ cls' = Moved(cls, r, Raised(r, "history", FALSE))
  /\ UNCHANGED <<lifeVars, logChannel, panelVars, selVars, verVars>>

\* Mutant of AfterSend: the loop of line 244 is left after the first send
AfterSend_SkipParts(r, i) == [r EXCEPT !.pc = "delete", !.i = i]

\* The position after a send to the log: the next part, or line 253
AfterSend(r, i) == IF i > Len(r.parts) THEN [r EXCEPT !.pc = "delete", !.i = i]
                   ELSE [r EXCEPT !.pc = "part", !.i = i]

\* line 241: the metadata embed is sent
CloseSendMeta(r) ==
  /\ r.pc = "meta"
  /\ logChannel
  /\ cls' = Moved(cls, r, AfterSend([r EXCEPT !.sent = Append(@, r.meta)], 1))
  /\ UNCHANGED <<lifeVars, logChannel, panelVars, selVars, verVars>>

\* lines 244-250: part i is sent
CloseSendPart(r) ==
  /\ r.pc = "part"
  /\ LET e == [kind |-> "part", i |-> r.i, body |-> r.parts[r.i]]
     IN cls' = Moved(cls, r, AfterSend([r EXCEPT !.sent = Append(@, e)], r.i + 1))
  /\ UNCHANGED <<lifeVars, logChannel, panelVars, selVars, verVars>>

\* line 241 or 250 raises (log_channel is None, or the send fails), before
\* line 253 is reached
CloseLogFails(r) ==
  /\ r.pc \in {"meta", "part"}
  /\ cls' = Moved(cls, r, Raised(r, "log", FALSE))
  /\ UNCHANGED <<lifeVars, logChannel, panelVars, selVars, verVars>>

\* Mutant of CloseDelete: deleting the channel also clears its owner's cooldown
CloseDelete_ClearsCooldown(r) ==
  /\ r.pc = "delete"
  /\ r.chan \in DOMAIN channels
  /\ channels' = [c \in DOMAIN channels \ {r.chan} |-> channels[c]]
  /\ cooldowns' = DeleteCooldown(channels[r.chan].owner)
  /\ cls' = Moved(cls, r, [r EXCEPT !.pc = "done", !.deleteAttempted = TRUE])
  /\ UNCHANGED <<now, TICKET_CREATION_STATUS, nextChan, history, req, okAt,
                 logChannel, panelVars, selVars, verVars>>

\* Mutant of CloseDelete: the closure ends without deleting the channel
CloseDelete_Skipped(r) ==
  /\ r.pc = "delete"
  /\ r.chan \in DOMAIN channels
  /\ cls' = Moved(cls, r, [r EXCEPT !.pc = "done"])
  /\ UNCHANGED <<lifeVars, logChannel, panelVars, selVars, verVars>>

\* line 253 (and 786 for force_close): the channel is deleted
CloseDelete(r) ==
  /\ r.pc = "delete"
  /\ r.chan \in DOMAIN channels
  /\ channels' = [c \in DOMAIN channels \ {r.chan} |-> channels[c]]
  /\ cls' = Moved(cls, r, [r EXCEPT !.pc = "done", !.deleteAttempted = TRUE])
  /\ UNCHANGED <<now, TICKET_CREATION_STATUS, cooldowns, nextChan, history, req, okAt,
                 logChannel, panelVars, selVars, verVars>>

\* line 253 raises NotFound: another closure deleted the channel
CloseDeleteFails(r) ==
  /\ r.pc = "delete"
  /\ r.chan \notin DOMAIN channels
  /\ cls' = Moved(cls, r, Raised(r, "delete", TRUE))
  /\ UNCHANGED <<lifeVars, logChannel, panelVars, selVars, verVars>>

\* ------------------------------------------------------------------------
\* The catalog files.  One one-step app and one two-step app are modelled.
\* ------------------------------------------------------------------------
V2_APPS_LIST == {"bilibili", "hotstar", "vpn"}
AppKeys == {"spotify", "vpn"}
DefaultApps == [k \in AppKeys |-> "final-link"]
DefaultV2 == [k \in AppKeys \cap V2_APPS_LIST |-> "v2-site"]

\* The panel channel before the first start of the bot
PanelIdle == panelChan = <<>> /\ nextMsg = 1 /\ setups = EmptyBag
\* The AppSelect view of the ticket the verification and the closure start with
Welcomed == dropdown = [c \in {1} |-> [options |-> DOMAIN DefaultApps, locked |-> "", offered |-> ""]]

\* ------------------------------------------------------------------------
Init ==
  /\ now = FirstInstant
  /\ TICKET_CREATION_STATUS = TRUE
  /\ cooldowns = <<>>
  /\ channels = <<>>
  /\ nextChan = 1
  /\ history = <<>>
  /\ req = EmptyBag
  /\ okAt = [u \in Users |-> {}]
  /\ cls = EmptyBag
  /\ logChannel = TRUE
  /\ apps = DefaultApps
  /\ v2_links = DefaultV2
  /\ verChan = <<>>
  /\ feed = <<>>
  /\ notices = 0
  /\ posts = EmptyBag
  /\ adm = EmptyBag
  /\ started = 0
  /\ PanelIdle
  /\ dropdown = <<>>

Next ==
  \/ \E u \in Users : ReqGateClosed(u)
  \/ \E r \in BagToSet(req) : ReqGateClosedReply(r)
  \/ \E u \in Users : ReqCooldownReject(u)
  \/ \E r \in BagToSet(req) : ReqCooldownReply(r)
  \/ \E u \in Users : ReqPass(u)
  \/ \E r \in BagToSet(req) : ReqReserve(r)
  \/ \E r \in BagToSet(req) : ReqCreated(r)
  \/ \E r \in BagToSet(req) : ReqCreateFails(r)
  \/ \E r \in BagToSet(req) : ReqWelcome(r)
  \/ \E u \in Users : remove_cooldown(u)
  \/ Tick

Spec == Init /\ [][Next]_vars

\* ------------------------------------------------------------------------
\* Closure of one delivered ticket: the channel exists with its close button,
\* its history is any short message sequence, the log channel may be missing.
\* ------------------------------------------------------------------------
MaxMsgs == 2
SampleLens == {1999, 2000, 4500}

After(t) == CHOOSE s \in Instants : s > t /\ \A x \in Instants : x > t => s <= x
WrittenAt == After(FirstInstant)

Histories ==
  UNION {[1..n -> {Message(a, WrittenAt, l) : a \in Users \cup {BotUser}, l \in SampleLens}]
         : n \in 0..MaxMsgs}

InitClose ==
  /\ now = After(WrittenAt)
  /\ TICKET_CREATION_STATUS = TRUE
  /\ cooldowns = [u \in Users |-> FirstInstant + COOLDOWN_HOURS]
  /\ channels = [c \in {1} |-> [owner |-> "u1", created |-> FirstInstant, closeButton |-> TRUE]]
  /\ nextChan = 2
  /\ history \in [{1} -> Histories]
  /\ req = EmptyBag
  /\ okAt = [u \in Users |-> {FirstInstant}]
  /\ cls = EmptyBag
  /\ logChannel \in BOOLEAN
  /\ apps = DefaultApps
  /\ v2_links = DefaultV2
  /\ verChan = <<>>
  /\ feed = <<>>
  /\ notices = 0
  /\ posts = EmptyBag
  /\ adm = EmptyBag
  /\ started = 0
  /\ PanelIdle
  /\ Welcomed

NextClose ==
  \/ \E c \in DOMAIN channels : \E who \in {channels[c].owner, Admin} : close_ticket(c, who)
  \/ \E c \in DOMAIN channels : force_close(c, Admin)
  \/ \E r \in BagToSet(cls) : CloseEnter(r)
  \/ \E r \in BagToSet(cls) : CloseTranscript(r)
  \/ \E r \in BagToSet(cls) : CloseHistoryFails(r)
  \/ \E r \in BagToSet(cls) : CloseSendMeta(r)
  \/ \E r \in BagToSet(cls) : CloseSendPart(r)
  \/ \E r \in BagToSet(cls) : CloseLogFails(r)
  \/ \E r \in BagToSet(cls) : CloseDelete(r)
  \/ \E r \in BagToSet(cls) : CloseDeleteFails(r)

SpecClose == InitClose /\ [][NextClose]_vars

\* Closure with the log channel configured and every send to it succeeding.
\* The event loop resumes every coroutine whose await has completed: the
\* countdown sleeps elapse and the platform answers every call.
\* Who wrote a message has no part in how a closure proceeds: the histories
\* are the bot's, of every number of chunks.
InitCloseLive ==
  /\ InitClose
  /\ logChannel = TRUE
  /\ \A c \in DOMAIN history : \A k \in DOMAIN history[c] : history[c][k].author = BotUser

NextCloseLive ==
  \/ \E c \in DOMAIN channels : \E who \in {channels[c].owner, Admin} : close_ticket(c, who)
  \/ \E c \in DOMAIN channels : force_close(c, Admin)
  \/ \E r \in BagToSet(cls) : CloseEnter(r)
  \/ \E r \in BagToSet(cls) : CloseTranscript(r)
  \/ \E r \in BagToSet(cls) : CloseHistoryFails(r)
  \/ \E r \in BagToSet(cls) : CloseSendMeta(r)
  \/ \E r \in BagToSet(cls) : CloseSendPart(r)
  \/ \E r \in BagToSet(cls) : CloseDelete(r)
  \/ \E r \in BagToSet(cls) : CloseDeleteFails(r)

Resumed ==
  /\ WF_vars(\E r \in BagToSet(cls) : CloseEnter(r))
  /\ WF_vars(\E r \in BagToSet(cls) : CloseTranscript(r))
  /\ WF_vars(\E r \in BagToSet(cls) : CloseHistoryFails(r))
  /\ WF_vars(\E r \in BagToSet(cls) : CloseSendMeta(r))
  /\ WF_vars(\E r \in BagToSet(cls) : CloseSendPart(r))
  /\ WF_vars(\E r \in BagToSet(cls) : CloseDelete(r))
  /\ WF_vars(\E r \in BagToSet(cls) : CloseDeleteFails(r))

SpecCloseLive == InitCloseLive /\ [][NextCloseLive]_vars /\ Resumed

\* ------------------------------------------------------------------------
\* Opening and closing together: a ticket opened when the window opened, and
\* everything that can follow.  Open-requests and closures are handled one at
\* a time here.
\* ------------------------------------------------------------------------
OpenedAt == SATURDAY * 24 + TICKET_START_HOUR_UTC

InitReopen ==
  /\ now = OpenedAt
  /\ TICKET_CREATION_STATUS = TRUE
  /\ cooldowns = [u \in Users |-> OpenedAt + COOLDOWN_HOURS]
  /\ channels = [c \in {1} |-> [owner |-> "u1", created |-> OpenedAt, closeButton |-> TRUE]]
  /\ nextChan = 2
  /\ history = [c \in {1} |-> <<Message(BotUser, OpenedAt, WelcomeLen)>>]
  /\ req = EmptyBag
  /\ okAt = [u \in Users |-> {OpenedAt}]
  /\ cls = EmptyBag
  /\ logChannel = TRUE
  /\ apps = DefaultApps
  /\ v2_links = DefaultV2
  /\ verChan = <<>>
  /\ feed = <<>>
  /\ notices = 0
  /\ posts = EmptyBag
  /\ adm = EmptyBag
  /\ started = 0
  /\ PanelIdle
  /\ Welcomed

NoClosureRuns == \A q \in BagToSet(cls) : q.pc \in {"done", "failed"}

NextReopen ==
  \/ NoClosureRuns /\ \E c \in DOMAIN channels : \E who \in {channels[c].owner, Admin} :
                         close_ticket(c, who)
  \/ NoClosureRuns /\ \E c \in DOMAIN channels : force_close(c, Admin)
  \/ \E r \in BagToSet(cls) : CloseEnter(r)
  \/ \E r \in BagToSet(cls) : CloseTranscript(r)
  \/ \E r \in BagToSet(cls) : CloseSendMeta(r)
  \/ \E r \in BagToSet(cls) : CloseSendPart(r)
  \/ \E r \in BagToSet(cls) : CloseDelete(r)
  \/ req = EmptyBag /\ \E u \in Users : ReqGateClosed(u)
  \/ req = EmptyBag /\ \E u \in Users : ReqCooldownReject(u)
  \/ req = EmptyBag /\ \E u \in Users : ReqPass(u)
  \/ \E r \in BagToSet(req) : ReqGateClosedReply(r)
  \/ \E r \in BagToSet(req) : ReqCooldownReply(r)
  \/ \E r \in BagToSet(req) : ReqReserve(r)
  \/ \E r \in BagToSet(req) : ReqCreated(r)
  \/ \E r \in BagToSet(req) : ReqCreateFails(r)
  \/ \E r \in BagToSet(req) : ReqWelcome(r)
  \/ \E u \in Users : remove_cooldown(u)
  \/ Tick

SpecReopen == InitReopen /\ [][NextReopen]_vars

\* ------------------------------------------------------------------------
\* Verification and delivery in one open ticket.
\* ------------------------------------------------------------------------
MaxOps == 3     \* messages, interactions and commands received

Moderator == "mod"  \* a member without manage_guild
Keywords == {"", "RASH TECH", "KEY"}    \* "KEY" stands for "<APP> KEY"

\* line 642 / 809: discord.utils.get(guild.channels, name=f"ticket-{user.id}")
TicketChannelOf(u) ==
  IF \E c \in DOMAIN channels : channels[c].owner = u
  THEN CHOOSE c \in DOMAIN channels :
         channels[c].owner = u /\ \A d \in DOMAIN channels : channels[d].owner = u => c <= d
  ELSE 0

\* A bot message in ticket channel c; by = the verification-channel message
\* whose view sent it, 0 for on_message and the slash commands
Sent(c, kind, app, by) == [chan |-> c, kind |-> kind, app |-> app, by |-> by, url |-> ""]
\* The "Premium App Delivered" embed with the link the catalog holds for app
\* when it is sent ("" when it holds none)
LinkOf(app) == IF app \in DOMAIN apps THEN apps[app] ELSE ""
SentLink(c, app, by) == [Sent(c, "link", app, by) EXCEPT !.url = LinkOf(app)]

\* on_message coroutines that answer with a missing-proof notice
Rejected(r) == r.pc = "ack" /\ r.kind \in {"keywordMissing", "screenshotRequired"}

\* One more message, interaction or command is received
Receive == started < MaxOps /\ started' = started + 1

\* lines 897-991: the requester posts a message in the ticket channel and
\* on_message runs to its first await.  app: the catalog key the text mentions
\* ("" for none), kw: the keyword it contains, att: whether it has an attachment.
NewPost(c, u, app, kind, pc) == [pc |-> pc, chan |-> c, user |-> u, app |-> app, kind |-> kind]
on_message(c, app, kw, att) ==
  /\ c \in DOMAIN channels
  /\ LET u == channels[c].owner
         p == IF att
              THEN IF app \in V2_APPS_LIST /\ kw = "KEY"              \* line 920
                   THEN NewPost(c, u, app, "v2", "forward")
                   ELSE IF kw = "RASH TECH"                          \* line 945
                        THEN NewPost(c, u, app, "v1", "forward")
                        ELSE NewPost(c, u, app, "keywordMissing", "ack")   \* line 986
              ELSE NewPost(c, u, app, "screenshotRequired", "ack")   \* line 991
     IN IF app \in DOMAIN apps                    \* line 904: matched_app_key
        THEN posts' = posts (+) One(p)
        ELSE posts' = posts                        \* neither branch: line 999
  /\ Receive
  /\ UNCHANGED <<lifeVars, closeVars, panelVars, selVars, apps, v2_links, verChan, feed, notices, adm>>

\* line 958: VerificationView(message.channel, message.author, app_key, screenshot)
VerificationView(r) ==
  [kind |-> "v1", ticket_channel |-> r.chan, user |-> r.user, app_name_key |-> r.app,
   stopped |-> FALSE, content |-> "pending", dropped |-> 0]

\* lines 930 / 956: the send to the verification channel completes; for a V1
\* proof the view becomes live
OnMessageForward(r) ==
  /\ r.pc = "forward"
  /\ verChan' = Append(verChan, IF r.kind = "v1" THEN VerificationView(r)
                                ELSE [kind |-> "v2", ticket_channel |-> r.chan,
                                      user |-> r.user, app_name_key |-> r.app])
  /\ posts' = Moved(posts, r, [r EXCEPT !.pc = "ack"])
  /\ UNCHANGED <<lifeVars, closeVars, panelVars, selVars, apps, v2_links, feed, notices, adm, started>>

\* lines 932 / 962 / 986 / 991: the reply in the ticket channel
OnMessageAck(r) ==
  /\ r.pc = "ack"
  /\ IF Rejected(r) THEN notices' = notices + 1 /\ feed' = feed
     ELSE feed' = Append(feed, Sent(r.chan, r.kind, r.app, 0)) /\ notices' = notices
  /\ posts' = posts (-) One(r)
  /\ UNCHANGED <<lifeVars, closeVars, panelVars, selVars, apps, v2_links, verChan, adm, started>>

\* An admin handler coroutine: op names the handler, pc the await it is
\* suspended in, view the verification-channel message of its view (0: none)
Handler(op, pc, v, c, app) == [op |-> op, pc |-> pc, view |-> v, chan |-> c, app |-> app]
Views == {v \in DOMAIN verChan : verChan[v].kind = "v1"}
Live(v) == v \in Views /\ ~verChan[v].stopped

\* Mutant of manage_guild: every member passes the permission check
manage_guild_Anyone(who) == TRUE

\* line 550 / 601: interaction.user.guild_permissions.manage_guild
manage_guild(who) == who = Admin

\* A button of a view that was stopped is pressed: the view is no longer in
\* the dispatch store and no callback runs
Undispatched(v) ==
  /\ v \in Views
  /\ verChan[v].stopped
  /\ Receive
  /\ verChan' = [verChan EXCEPT ![v].dropped = @ + 1]
  /\ UNCHANGED <<lifeVars, closeVars, panelVars, selVars, apps, v2_links, feed, notices, posts, adm>>

\* lines 549-590: the Verify button of view v is pressed by who; the callback
\* runs to its first await
verify(v, who) ==
  /\ Live(v)
  /\ Receive
  /\ LET self == verChan[v]
         h(pc) == Handler("verify", pc, v, self.ticket_channel, self.app_name_key)
     IN IF ~manage_guild(who) THEN adm' = adm (+) One(h("denied"))             \* line 551
        ELSE IF self.app_name_key \in V2_APPS_LIST
             THEN IF self.app_name_key \notin DOMAIN v2_links                 \* line 563
                  THEN adm' = adm (+) One(h("error"))
                  ELSE adm' = adm (+) One(h("prompt"))       \* line 579
             ELSE adm' = adm (+) One(h("deliver"))           \* line 590
  /\ UNCHANGED <<lifeVars, closeVars, panelVars, selVars, apps, v2_links, verChan, feed, notices, posts>>

\* lines 600-612: the Decline button of view v is pressed by who
decline(v, who) ==
  /\ Live(v)
  /\ Receive
  /\ LET self == verChan[v]
         h(pc) == Handler("decline", pc, v, self.ticket_channel, self.app_name_key)
     IN IF ~manage_guild(who) THEN adm' = adm (+) One(h("denied"))             \* line 602
        ELSE adm' = adm (+) One(h("notice"))                 \* line 612
  /\ UNCHANGED <<lifeVars, closeVars, panelVars, selVars, apps, v2_links, verChan, feed, notices, posts>>

\* Mutant of Stopped: self.stop() is left out
Stopped_Omitted(panel, v) == panel

\* lines 582 / 593 / 614: self.stop() takes the view out of the dispatch store
Stopped(panel, v) == [panel EXCEPT ![v].stopped = TRUE]

\* deliver_and_close(ticket_channel, user, app_key), called at lines 590 and
\* 648 and defined nowhere in the file: the link is sent to the ticket channel
\* and closure is offered there.
deliver_and_close(c, app, by) ==
  /\ feed' = Append(feed, SentLink(c, app, by))
  /\ channels' = [x \in DOMAIN channels |->
                    IF x = c THEN [channels[x] EXCEPT !.closeButton = TRUE] ELSE channels[x]]

\* Mutant of VerifyPrompt: the link is sent in place of the V2 prompt
VerifyPrompt_SendsLink(r) ==
  /\ r.op = "verify" /\ r.pc = "prompt"
  /\ feed' = Append(feed, Sent(r.chan, "link", r.app, r.view))
  /\ verChan' = Stopped(verChan, r.view)
  /\ adm' = Moved(adm, r, [r EXCEPT !.pc = "edit"])
  /\ UNCHANGED <<lifeVars, closeVars, panelVars, selVars, apps, v2_links, notices, posts, started>>

\* lines 579-583: the V2 prompt is sent to the ticket channel, the view is
\* stopped, the panel edit is awaited
VerifyPrompt(r) ==
  /\ r.op = "verify" /\ r.pc = "prompt"
  /\ feed' = Append(feed, Sent(r.chan, "prompt", r.app, r.view))
  /\ verChan' = Stopped(verChan, r.view)
  /\ adm' = Moved(adm, r, [r EXCEPT !.pc = "edit"])
  /\ UNCHANGED <<lifeVars, closeVars, panelVars, selVars, apps, v2_links, notices, posts, started>>

\* lines 590-594: deliver_and_close returns, the view is stopped, the panel
\* edit is awaited
VerifyDeliver(r) ==
  /\ r.op = "verify" /\ r.pc = "deliver"
  /\ deliver_and_close(r.chan, r.app, r.view)
  /\ verChan' = Stopped(verChan, r.view)
  /\ adm' = Moved(adm, r, [r EXCEPT !.pc = "edit"])
  /\ UNCHANGED <<now, TICKET_CREATION_STATUS, cooldowns, nextChan, history, req, okAt,
                 closeVars, panelVars, selVars, apps, v2_links, notices, posts, started>>

\* Mutant of DeclineNotice: the decline delivers the link
DeclineNotice_Delivers(r) ==
  /\ r.op = "decline" /\ r.pc = "notice"
  /\ feed' = Append(feed, Sent(r.chan, "link", r.app, r.view))
  /\ verChan' = Stopped(verChan, r.view)
  /\ adm' = Moved(adm, r, [r EXCEPT !.pc = "edit"])
  /\ UNCHANGED <<lifeVars, closeVars, panelVars, selVars, apps, v2_links, notices, posts, started>>

\* lines 612-615: the decline notice is sent to the ticket channel, the view
\* is stopped, the panel edit is awaited
DeclineNotice(r) ==
  /\ r.op = "decline" /\ r.pc = "notice"
  /\ feed' = Append(feed, Sent(r.chan, "declined", r.app, r.view))
  /\ verChan' = Stopped(verChan, r.view)
  /\ adm' = Moved(adm, r, [r EXCEPT !.pc = "edit"])
  /\ UNCHANGED <<lifeVars, closeVars, panelVars, selVars, apps, v2_links, notices, posts, started>>

\* lines 583 / 594 / 615: interaction.message.edit(content=..., view=None)
PanelContent(r) == IF r.op = "decline" THEN "DECLINED"
                   ELSE IF r.app \in V2_APPS_LIST THEN "V1 Approved" ELSE "VERIFIED"
PanelEdited(r) ==
  /\ r.pc = "edit"
  /\ verChan' = [verChan EXCEPT ![r.view].content = PanelContent(r)]
  /\ adm' = Moved(adm, r, [r EXCEPT !.pc = "respond"])
  /\ UNCHANGED <<lifeVars, closeVars, panelVars, selVars, apps, v2_links, feed, notices, posts, started>>

\* The final interaction.response.send_message of a handler (lines 551, 564,
\* 585, 596, 602, 617, 634, 637, 645, 650, 803, 813, 834): the handler ends
Responded(r) ==
  /\ r.pc \in {"respond", "denied", "error"}
  /\ adm' = adm (-) One(r)
  /\ UNCHANGED <<lifeVars, closeVars, panelVars, selVars, apps, v2_links, verChan, feed, notices, posts, started>>

\* lines 626-648: /verify_v2_final app_name user, run by an admin, to its
\* first await
verify_v2_final(app_key, user) ==
  /\ Receive
  /\ LET c == TicketChannelOf(user)
         h(pc) == Handler("verify_v2_final", pc, 0, c, app_key)
     IN IF app_key \notin V2_APPS_LIST THEN adm' = adm (+) One(h("error"))     \* line 633
        ELSE IF app_key \notin DOMAIN apps THEN adm' = adm (+) One(h("error")) \* line 636
        ELSE IF c = 0 THEN adm' = adm (+) One(h("error"))                     \* line 644
        ELSE adm' = adm (+) One(h("deliver"))                \* line 648
  /\ UNCHANGED <<lifeVars, closeVars, panelVars, selVars, apps, v2_links, verChan, feed, notices, posts>>

\* lines 648-650: deliver_and_close returns
V2FinalDeliver(r) ==
  /\ r.op = "verify_v2_final" /\ r.pc = "deliver"
  /\ deliver_and_close(r.chan, r.app, 0)
  /\ adm' = Moved(adm, r, [r EXCEPT !.pc = "respond"])
  /\ UNCHANGED <<now, TICKET_CREATION_STATUS, cooldowns, nextChan, history, req, okAt,
                 closeVars, panelVars, selVars, apps, v2_links, verChan, notices, posts, started>>

\* lines 795-824: /send_app app_name user, run by an admin, to its first await
send_app(app_key, user) ==
  /\ Receive
  /\ LET c == TicketChannelOf(user)
         h(pc) == Handler("send_app", pc, 0, c, app_key)
     IN IF app_key \notin DOMAIN apps THEN adm' = adm (+) One(h("error"))      \* line 802
        ELSE IF c = 0 THEN adm' = adm (+) One(h("error"))                     \* line 812
        ELSE adm' = adm (+) One(h("send1"))                  \* line 824
  /\ UNCHANGED <<lifeVars, closeVars, panelVars, selVars, apps, v2_links, verChan, feed, notices, posts>>

\* line 824: the link embed is sent to the ticket channel
SendAppLink(r) ==
  /\ r.op = "send_app" /\ r.pc = "send1"
  /\ feed' = Append(feed, SentLink(r.chan, r.app, 0))
  /\ adm' = Moved(adm, r, [r EXCEPT !.pc = "send2"])
  /\ UNCHANGED <<lifeVars, closeVars, panelVars, selVars, apps, v2_links, verChan, notices, posts, started>>

\* lines 825-832: the "Service Completed" embed is sent with a CloseTicketView
SendAppOffer(r) ==
  /\ r.op = "send_app" /\ r.pc = "send2"
  /\ feed' = Append(feed, Sent(r.chan, "completed", r.app, 0))
  /\ channels' = [x \in DOMAIN channels |->
                    IF x = r.chan THEN [channels[x] EXCEPT !.closeButton = TRUE]
                    ELSE channels[x]]
  /\ adm' = Moved(adm, r, [r EXCEPT !.pc = "respond"])
  /\ UNCHANGED <<now, TICKET_CREATION_STATUS, cooldowns, nextChan, history, req, okAt,
                 closeVars, panelVars, selVars, apps, v2_links, verChan, notices, posts, started>>

\* One ticket of u1 is open and its welcome message was sent; v2_links.json
\* holds the default sites or was emptied.
InitVerify ==
  /\ now = After(FirstInstant)
  /\ TICKET_CREATION_STATUS = TRUE
  /\ cooldowns = [u \in Users |-> FirstInstant + COOLDOWN_HOURS]
  /\ channels = [c \in {1} |-> [owner |-> "u1", created |-> FirstInstant, closeButton |-> FALSE]]
  /\ nextChan = 2
  /\ history = [c \in {1} |-> <<Message(BotUser, FirstInstant, WelcomeLen)>>]
  /\ req = EmptyBag
  /\ okAt = [u \in Users |-> {FirstInstant}]
  /\ cls = EmptyBag
  /\ logChannel = TRUE
  /\ apps = DefaultApps
  /\ v2_links \in {DefaultV2, <<>>}
  /\ verChan = <<>>
  /\ feed = <<>>
  /\ notices = 0
  /\ posts = EmptyBag
  /\ adm = EmptyBag
  /\ started = 0
  /\ PanelIdle
  /\ Welcomed

NextVerify ==
  \/ \E c \in DOMAIN channels : \E app \in AppKeys : \E kw \in Keywords : \E att \in BOOLEAN :
       on_message(c, app, kw, att)
  \/ \E r \in BagToSet(posts) : OnMessageForward(r)
  \/ \E r \in BagToSet(posts) : OnMessageAck(r)
  \/ \E v \in Views : \E who \in {Admin, Moderator} : verify(v, who)
  \/ \E v \in Views : \E who \in {Admin, Moderator} : decline(v, who)
  \/ \E v \in Views : Undispatched(v)
  \/ \E r \in BagToSet(adm) : VerifyPrompt(r)
  \/ \E r \in BagToSet(adm) : VerifyDeliver(r)
  \/ \E r \in BagToSet(adm) : DeclineNotice(r)
  \/ \E r \in BagToSet(adm) : PanelEdited(r)
  \/ \E r \in BagToSet(adm) : Responded(r)
  \/ \E app \in AppKeys : \E u \in Users : verify_v2_final(app, u)
  \/ \E r \in BagToSet(adm) : V2FinalDeliver(r)
  \/ \E app \in AppKeys : \E u \in Users : send_app(app, u)
  \/ \E r \in BagToSet(adm) : SendAppLink(r)
  \/ \E r \in BagToSet(adm) : SendAppOffer(r)

SpecVerify == InitVerify /\ [][NextVerify]_vars

\* ------------------------------------------------------------------------
\* Selection in the ticket and the catalog commands.
\* ------------------------------------------------------------------------
Urls == {"final-link", "new-link"}

\* lines 382-384: the requester picks key in the dropdown of ticket channel c;
\* the callback defers and awaits the edit of the welcome message.  The view
\* is attached to the message until that edit
callback(c, key) ==
  /\ c \in DOMAIN channels /\ c \in DOMAIN dropdown
  /\ dropdown[c].locked = ""
  /\ key \in dropdown[c].options
  /\ Receive
  /\ adm' = adm (+) One(Handler("callback", "lock", 0, c, key))
  /\ UNCHANGED <<lifeVars, closeVars, panelVars, selVars, apps, v2_links, verChan, feed, notices, posts>>

\* lines 393-408: the message now reads "Selection Locked" and has no view;
\* a two-step key without a V2 site gets the setup error, every other key
\* its instructions
CallbackLock(r) ==
  /\ r.op = "callback" /\ r.pc = "lock"
  /\ dropdown' = [dropdown EXCEPT ![r.chan].locked = r.app, ![r.chan].offered = LinkOf(r.app)]
  /\ adm' = Moved(adm, r, [r EXCEPT !.pc = IF r.app \in V2_APPS_LIST /\ r.app \notin DOMAIN v2_links
                                           THEN "setupError" ELSE "instructions"])
  /\ UNCHANGED <<lifeVars, closeVars, panelVars, apps, v2_links, verChan, feed, notices, posts, started>>

\* lines 410 / 452: interaction.followup.send(embed=...) into the ticket channel
CallbackFollowup(r) ==
  /\ r.op = "callback" /\ r.pc \in {"setupError", "instructions"}
  /\ feed' = Append(feed, Sent(r.chan, r.pc, r.app, 0))
  /\ adm' = adm (-) One(r)
  /\ UNCHANGED <<lifeVars, closeVars, panelVars, selVars, apps, v2_links, verChan, notices, posts, started>>

\* lines 657-671: /add_app app_name app_link defers, then loads, sets and saves
\* the catalog without an await in between; the follow-up is awaited
add_app(app_key, app_link) ==
  /\ Receive
  /\ apps' = [k \in DOMAIN apps \cup {app_key} |-> IF k = app_key THEN app_link ELSE apps[k]]
  /\ adm' = adm (+) One(Handler("add_app", "respond", 0, 0, app_key))
  /\ UNCHANGED <<lifeVars, closeVars, panelVars, selVars, v2_links, verChan, feed, notices, posts>>

\* lines 680-698: /remove_app app_name defers, then deletes the key and saves,
\* or finds no such key; the follow-up is awaited
remove_app(app_key) ==
  /\ Receive
  /\ apps' = [k \in DOMAIN apps \ {app_key} |-> apps[k]]
  /\ adm' = adm (+) One(Handler("remove_app", "respond", 0, 0, app_key))
  /\ UNCHANGED <<lifeVars, closeVars, panelVars, selVars, v2_links, verChan, feed, notices, posts>>

InitSelect ==
  /\ InitVerify
  /\ v2_links = DefaultV2

NextSelect ==
  \/ \E c \in DOMAIN channels : \E key \in AppKeys : callback(c, key)
  \/ \E r \in BagToSet(adm) : CallbackLock(r)
  \/ \E r \in BagToSet(adm) : CallbackFollowup(r)
  \/ \E key \in AppKeys : \E url \in Urls : add_app(key, url)
  \/ \E key \in AppKeys : remove_app(key)
  \/ NextVerify

SpecSelect == InitSelect /\ [][NextSelect]_vars

\* ------------------------------------------------------------------------
\* The ticket panel channel: setup_ticket_panel, on_ready, /refresh_panel.
\* ------------------------------------------------------------------------
HISTORY_LIMIT == 5  \* channel.history(limit=5)
MaxSetups == 3      \* calls of setup_ticket_panel
MaxOthers == 5      \* messages in the panel channel that are not the panel

\* A message of the panel channel; panel: it is the bot's and its first
\* component is the persistent_create_ticket_button (lines 1027-1028)
PanelMsg(id, panel) == [id |-> id, panel |-> panel]
Panels(chan) == {k \in DOMAIN chan : chan[k].panel}

\* A setup_ticket_panel coroutine: read is the next message id at the time
\* of its history call (0 before it), panel_message the id it found (0: none)
NewSetup(force_resend) ==
  [pc |-> "history", force_resend |-> force_resend, panel_message |-> 0, read |-> 0]

SetupBudget == BagCardinality(setups) < MaxSetups

\* lines 1052-1059: on_ready calls setup_ticket_panel()
on_ready ==
  /\ SetupBudget
  /\ setups' = setups (+) One(NewSetup(FALSE))
  /\ UNCHANGED <<lifeVars, closeVars, selVars, verVars, panelChan, nextMsg>>

\* lines 870-877: /refresh_panel defers and calls setup_ticket_panel(force_resend=True)
refresh_panel ==
  /\ SetupBudget
  /\ setups' = setups (+) One(NewSetup(TRUE))
  /\ UNCHANGED <<lifeVars, closeVars, selVars, verVars, panelChan, nextMsg>>

\* Somebody else, or the bot itself without the button, posts in the panel channel
PostOther ==
  /\ Cardinality(DOMAIN panelChan \ Panels(panelChan)) < MaxOthers
  /\ panelChan' = Append(panelChan, PanelMsg(nextMsg, FALSE))
  /\ nextMsg' = nextMsg + 1
  /\ UNCHANGED <<lifeVars, closeVars, selVars, verVars, setups>>

\* line 1025: the newest HISTORY_LIMIT messages of the channel
Recent(chan) == {k \in DOMAIN chan : k > Len(chan) - HISTORY_LIMIT}

\* lines 1025-1030: the newest panel among the messages the history call
\* returned, 0 when there is none
FoundPanel(chan) ==
  LET found == Panels(chan) \cap Recent(chan)
  IN IF found = {} THEN 0
     ELSE chan[CHOOSE k \in found : \A j \in found : j <= k].id

\* lines 1025-1039: the history call returns, the loop and both tests run up
\* to the next await, or to the end when the panel was found and is kept
PanelHistory(r) ==
  /\ r.pc = "history"
  /\ LET found == FoundPanel(panelChan)
         pc == IF found # 0 /\ r.force_resend THEN "delete"      \* line 1033
               ELSE IF found = 0 THEN "send"                      \* line 1038
               ELSE "done"
     IN setups' = Moved(setups, r, [r EXCEPT !.pc = pc, !.panel_message = found,
                                             !.read = nextMsg])
  /\ UNCHANGED <<lifeVars, closeVars, selVars, verVars, panelChan, nextMsg>>

\* The channel without the message id
Without(chan, id) == SelectSeq(chan, LAMBDA m : m.id # id)

\* line 1034: panel_message.delete(); discord.NotFound, when the message is
\* gone already, is caught at line 1044 and ends the call
PanelDelete(r) ==
  /\ r.pc = "delete"
  /\ IF \E k \in DOMAIN panelChan : panelChan[k].id = r.panel_message
     THEN /\ panelChan' = Without(panelChan, r.panel_message)
          /\ setups' = Moved(setups, r, [r EXCEPT !.pc = "send"])
     ELSE /\ panelChan' = panelChan
          /\ setups' = Moved(setups, r, [r EXCEPT !.pc = "failed"])
  /\ UNCHANGED <<lifeVars, closeVars, selVars, verVars, nextMsg>>

\* line 1039: channel.send(embed=panel_embed, view=TicketPanelButton())
PanelSend(r) ==
  /\ r.pc = "send"
  /\ panelChan' = Append(panelChan, PanelMsg(nextMsg, TRUE))
  /\ nextMsg' = nextMsg + 1
  /\ setups' = Moved(setups, r, [r EXCEPT !.pc = "done"])
  /\ UNCHANGED <<lifeVars, closeVars, selVars, verVars>>

InitPanel ==
  /\ Init

NextPanel ==
  \/ on_ready
  \/ refresh_panel
  \/ PostOther
  \/ \E r \in BagToSet(setups) : PanelHistory(r)
  \/ \E r \in BagToSet(setups) : PanelDelete(r)
  \/ \E r \in BagToSet(setups) : PanelSend(r)

SpecPanel == InitPanel /\ [][NextPanel]_vars

\* ========================================================================
\* Claims about the open-request path (checked under Spec)
\* ========================================================================
ChannelsOf(u) == {c \in DOMAIN channels : channels[c].owner = u}

\* C1 (as claimed): of two open-requests of one requester that are handled
\* concurrently, at most one creates a ticket channel: no request creates a
\* channel after a concurrent request of the same requester created one.
C1_OneOfTwoConcurrentOpens ==
  \A r \in BagToSet(req) : r.pc = "welcoming" => ~r.rival

\* C2 (as claimed): after an open of R succeeded at t1, with no remove_cooldown
\* since, every open-request of R checked at t2, t1 < t2 < t1 + COOLDOWN_HOURS,
\* is rejected with the remaining time t1 + COOLDOWN_HOURS - t2.
C2_RejectedWithRemaining ==
  \A r \in BagToSet(req) : \A t1 \in okAt[r.user] :
    (t1 < r.t /\ r.t < t1 + COOLDOWN_HOURS)
      => (r.pc = "rejecting" /\ r.remaining = t1 + COOLDOWN_HOURS - r.t)

\* A step starts the coroutine r: one more copy of r, suspended in its first
\* await, with the flags of a new request
Starts(r) ==
  /\ r.pc \in {"closedSleep", "rejecting", "deferred"}
  /\ ~r.rival /\ ~r.cleared
  /\ CopiesIn(r, req') > CopiesIn(r, req)

\* C2 (amended): an open-request of R whose checks run at t2 while R's cooldown
\* entry holds a value c > t2 is rejected with the remaining time c - t2 if the
\* gate is open at t2, and with the schedule-closed reply if it is closed; in
\* both cases no channel is created and the registry is left unchanged.
C2_ActiveEntryRejects ==
  [][\A u \in Users : (u \in DOMAIN cooldowns /\ cooldowns[u] > now) =>
       \A r \in BagToSet(req') : (Starts(r) /\ r.user = u) =>
         /\ IF TICKET_CREATION_STATUS /\ is_ticket_time_allowed(now)
            THEN r.pc = "rejecting" /\ r.remaining = cooldowns[u] - now
            ELSE r.pc = "closedSleep"
         /\ UNCHANGED <<cooldowns, channels, nextChan>>]_vars

\* C2 witness: a request is being rejected with the time remaining of the
\* cooldown reserved by an earlier successful open
C2_Witness ==
  \E r \in BagToSet(req) : \E t1 \in okAt[r.user] :
    /\ r.pc = "rejecting"
    /\ t1 < r.t
    /\ r.remaining = t1 + COOLDOWN_HOURS - r.t
    /\ r.remaining > 0

\* C3 (as claimed): a requester never has two open ticket channels.
C3_OneOpenTicketPerRequester ==
  \A u \in Users : Cardinality(ChannelsOf(u)) <= 1

\* The weekly window as the claims state it
InWindow(t) ==
  Weekday(t) = SATURDAY /\ TICKET_START_HOUR_UTC <= Hour(t) /\ Hour(t) < TICKET_END_HOUR_UTC
\* A step ends the coroutine r
Ends(r) == req' = req (-) One(r)

\* C13 (as claimed): an open-request that fails while creating its channel
\* leaves no cooldown entry of its own behind: after the failure the registry
\* does not hold the value the request wrote, unless a request of the same
\* requester with the same check time did create its channel.
C13_FailedOpenLeavesNoCooldown ==
  [][\A r \in BagToSet(req) :
       (r.pc = "creating" /\ Ends(r)) =>
         ~ /\ r.user \in DOMAIN cooldowns'
           /\ cooldowns'[r.user] = r.t + COOLDOWN_HOURS
           /\ r.t \notin okAt[r.user]]_vars

\* C14: an open-request that finds the gate closed (creation disabled or the
\* clock outside the weekly window) gets the schedule-closed reply; starting
\* and ending it creates no channel and leaves the cooldown registry
\* unchanged; and an open-request that finds the gate open and no active
\* cooldown passes both checks.
C14_GateClosedChangesNothing ==
  [][/\ ~(TICKET_CREATION_STATUS /\ InWindow(now)) =>
          \A r \in BagToSet(req') : Starts(r) => r.pc = "closedSleep"
     /\ \A r \in BagToSet(req) \cup BagToSet(req') :
          (r.pc = "closedSleep" /\ (Starts(r) \/ Ends(r))) =>
            UNCHANGED <<cooldowns, channels, nextChan, history>>
     /\ (TICKET_CREATION_STATUS /\ InWindow(now)) =>
          \A r \in BagToSet(req') :
            (Starts(r) /\ ~(r.user \in DOMAIN cooldowns /\ cooldowns[r.user] > now)) =>
              r.pc = "deferred"]_vars

\* C14 witness: a request is being answered with the schedule-closed reply
\* at a time outside the window
C14_Witness ==
  \E r \in BagToSet(req) : r.pc = "closedSleep" /\ ~InWindow(r.t) /\ r.t = now

\* C15: remove_cooldown(R) deletes R's entry and nothing else of the registry,
\* the channels or the clock, and changes nothing when R has no entry; an
\* open-request of R that finds no entry at a gate-open time passes both
\* checks, and the request that passed reserves a new cooldown from its own
\* check time.
C15_RemoveThenOpenSucceeds ==
  [][\A u \in Users :
       /\ remove_cooldown(u) =>
            /\ u \notin DOMAIN cooldowns'
            /\ \A x \in DOMAIN cooldowns \ {u} : x \in DOMAIN cooldowns' /\ cooldowns'[x] = cooldowns[x]
            /\ UNCHANGED <<now, TICKET_CREATION_STATUS, channels, nextChan, history>>
       /\ (u \notin DOMAIN cooldowns /\ TICKET_CREATION_STATUS /\ InWindow(now)) =>
            \A r \in BagToSet(req') : (Starts(r) /\ r.user = u) => r.pc = "deferred"
       /\ \A r \in BagToSet(req) :
            (r.user = u /\ r.pc = "deferred" /\ req' = Moved(req, r, [r EXCEPT !.pc = "creating"])) =>
              (u \in DOMAIN cooldowns' /\ cooldowns'[u] = r.t + COOLDOWN_HOURS)]_vars

\* C15 witness: a request that started after the requester's earlier channel
\* was created, and within COOLDOWN_HOURS of it, has created its own channel
\* and holds a new cooldown: the earlier entry was deleted in between
C15_Witness ==
  \E r \in BagToSet(req) : \E c \in ChannelsOf(r.user) :
    /\ r.pc = "welcoming" /\ ~r.rival /\ ~r.cleared
    /\ c # r.chan
    /\ channels[c].created < r.t
    /\ r.t < channels[c].created + COOLDOWN_HOURS
    /\ cooldowns[r.user] = r.t + COOLDOWN_HOURS

\* C16: an open-request goes past the gate exactly when the creation flag is
\* true and the clock is in the weekly window (Saturday, start hour <= hour <
\* end hour); the step that evaluates the gate only starts the coroutine.
C16_GateIffFlagAndWindow ==
  [][\A r \in BagToSet(req') :
       Starts(r) =>
         /\ (r.pc # "closedSleep") <=> (TICKET_CREATION_STATUS /\ InWindow(now))
         /\ UNCHANGED <<now, TICKET_CREATION_STATUS, cooldowns, channels, nextChan, history,
                        okAt, closeVars, verVars>>]_vars

\* C16 witness: one request stopped by the gate and one that went past it are
\* in flight
C16_Witness ==
  \E r \in BagToSet(req) : \E q \in BagToSet(req) :
    /\ r.pc = "closedSleep" /\ ~InWindow(r.t)
    /\ q.pc = "deferred" /\ InWindow(q.t)

\* C32: the creation flag is true in every reachable state, so at every instant
\* the gate passes exactly when is_ticket_time_allowed does.
C32_CreationFlagStaysTrue ==
  /\ TICKET_CREATION_STATUS = TRUE
  /\ \A t \in Instants : GatePasses(t) <=> is_ticket_time_allowed(t)

\* C32 witness: a ticket was opened, the clock went on, and a later request
\* is stopped by the gate, with the flag still true
C32_Witness ==
  \E c \in DOMAIN channels : \E r \in BagToSet(req) :
    /\ r.pc = "closedSleep" /\ r.t > channels[c].created
    /\ ~is_ticket_time_allowed(r.t)
    /\ TICKET_CREATION_STATUS

\* ========================================================================
\* Claims about closure (checked under SpecClose)
\* ========================================================================
ClosuresOf(c) == {r \in BagToSet(cls) : r.chan = c}
Deleted(c) == c \in DOMAIN history /\ c \notin DOMAIN channels
\* The closures of channel c that have sent entry e to the log, with multiplicity
Senders(c, kind, i) ==
  LET S == {r \in ClosuresOf(c) :
              \E k \in 1..Len(r.sent) : r.sent[k].kind = kind /\ (kind = "part" => r.sent[k].i = i)}
  IN BagCardinality([r \in S |-> cls[r]])

\* C8: every closure sends the metadata first and then the chunks in order,
\* each with the text create_transcript produced for the channel, and a
\* channel is deleted only by a closure that has sent the metadata and every
\* chunk: the transcript of a deleted channel is in the log in full.
C8_ArchiveThenDelete ==
  /\ \A r \in BagToSet(cls) :
       LET parts == create_transcript(history[r.chan]) IN
       /\ Len(r.sent) <= 1 + Len(parts)
       /\ \A k \in 1..Len(r.sent) :
            IF k = 1 THEN r.sent[k].kind = "meta"
            ELSE r.sent[k] = [kind |-> "part", i |-> k - 1, body |-> parts[k - 1]]
       /\ r.pc = "done" => Len(r.sent) = 1 + Len(parts)
  /\ \A c \in DOMAIN history :
       Deleted(c) => \E r \in ClosuresOf(c) : r.pc = "done"

\* C8 witness: a deleted channel whose transcript of two chunks was sent
C8_Witness ==
  \E c \in DOMAIN history : \E r \in ClosuresOf(c) :
    /\ Deleted(c)
    /\ r.pc = "done"
    /\ Len(create_transcript(history[c])) = 2
    /\ Len(r.sent) = 3

\* C9 (as claimed): however many closures run for a ticket, its transcript is
\* archived at most once: the log receives the metadata of a channel at most
\* once and each chunk at most once.
C9_ArchivedAtMostOnce ==
  \A c \in DOMAIN history :
    /\ Senders(c, "meta", 0) <= 1
    /\ \A i \in 1..Len(create_transcript(history[c])) : Senders(c, "part", i) <= 1

\* C10 (as claimed): a closure whose send to the log fails reports the failure
\* to its invoker and still attempts to delete the channel.
C10_LogFailureReportedAndDeleted ==
  \A r \in BagToSet(cls) :
    (r.pc = "failed" /\ r.at = "log") => (r.reported /\ r.deleteAttempted)

\* The transcript of channel c is in the log in full
Archived(c) ==
  \E r \in ClosuresOf(c) :
    /\ Len(r.sent) = 1 + Len(create_transcript(history[c]))
    /\ r.sent[1].kind = "meta"

\* C28: once a closure of a ticket channel has started, and with the log
\* channel there and the sends to it succeeding, the transcript of the channel
\* is eventually in the log in full and the channel is eventually deleted.
C28_ClosureRunsToCompletion ==
  \A c \in 1..MaxChannels : (ClosuresOf(c) # {}) ~> (Archived(c) /\ Deleted(c))

\* C28 witness: a closure started by the close button has ended, the channel
\* is deleted and its transcript is in the log
C28_Witness ==
  \E r \in BagToSet(cls) :
    /\ r.via = "button" /\ r.pc = "done"
    /\ Archived(r.chan) /\ Deleted(r.chan)

\* C30: no step of a closure changes the cooldown registry, and after a ticket
\* channel was deleted an open-request of a requester whose entry is still in
\* the future passes no check: it is rejected for the cooldown, or for the
\* schedule when the gate is closed.
C30_ClosureKeepsCooldown ==
  [][/\ cls' # cls => cooldowns' = cooldowns
     /\ \A u \in Users :
          (/\ \E c \in DOMAIN history : Deleted(c)
           /\ u \in DOMAIN cooldowns /\ cooldowns[u] > now)
          => \A r \in BagToSet(req') :
               (Starts(r) /\ r.user = u) =>
                 IF GatePasses(now)
                 THEN r.pc = "rejecting" /\ r.remaining = cooldowns[u] - now
                 ELSE r.pc = "closedSleep"]_vars

\* C30 witness: the ticket was closed by a closure that ran to its end, its
\* requester has no ticket channel, and an open-request of the requester is
\* being rejected with the time remaining of the cooldown reserved at opening
C30_Witness ==
  \E r \in BagToSet(req) : \E q \in BagToSet(cls) :
    /\ q.pc = "done" /\ Deleted(q.chan)
    /\ ChannelsOf(r.user) = {}
    /\ r.pc = "rejecting"
    /\ r.remaining = OpenedAt + COOLDOWN_HOURS - r.t
    /\ r.remaining > 0

\* ------------------------------------------------------------------------
\* Verification and delivery
\* ------------------------------------------------------------------------
Links(c) == {k \in DOMAIN feed : feed[k].chan = c /\ feed[k].kind = "link"}
Delivered(c) == Links(c) # {}
\* The ticket-channel messages sent by the handlers of view v
EffectsOf(v) == {k \in DOMAIN feed : feed[k].by = v}
\* The on_message coroutines of channel c that took a message as a proof
Accepted(B, c) == BagCardinality([r \in {x \in BagToSet(B) : x.chan = c /\ x.pc = "forward"} |-> B[r]])
\* The handlers started for view v
StartedOn(B, v) ==
  BagCardinality([r \in {x \in BagToSet(B) :
                           x.view = v /\ x.pc \in {"denied", "error", "prompt", "deliver", "notice"}}
                  |-> B[r]])

\* C4 (as claimed): the link of a two-step app is sent into a ticket channel
\* only after a phase-1 proof of that ticket was approved (the V2 prompt was
\* sent) and, after that, a phase-2 proof was submitted and accepted.
C4_TwoStepNeedsBothApprovals ==
  \A k \in DOMAIN feed :
    (feed[k].kind = "link" /\ feed[k].app \in V2_APPS_LIST) =>
      \E i \in 1..k : \E j \in 1..k :
        /\ i < j /\ j < k
        /\ feed[i].kind = "prompt" /\ feed[i].chan = feed[k].chan /\ feed[i].app = feed[k].app
        /\ feed[j].kind = "v2" /\ feed[j].chan = feed[k].chan /\ feed[j].app = feed[k].app

\* C5 (as claimed): the decisions taken on one verification panel have at most
\* one effect on the ticket: at most one of link, V2 prompt and decline notice
\* is sent by the handlers of one view.
C5_OneDecisionPerAttempt ==
  \A v \in Views : Cardinality(EffectsOf(v)) <= 1

\* C6: once the panel of a view shows a decision, a press of one of its
\* buttons starts no handler, and the step that receives it changes nothing
\* but the count of undispatched interactions: no message is sent to the
\* ticket channel, no close button is offered, no panel changes.
C6_StaleControlRejected ==
  [][\A v \in Views :
       verChan[v].content # "pending" =>
         /\ StartedOn(adm', v) <= StartedOn(adm, v)
         /\ verChan'[v].dropped # verChan[v].dropped =>
              /\ feed' = feed /\ notices' = notices /\ adm' = adm /\ posts' = posts
              /\ channels' = channels
              /\ verChan' = [verChan EXCEPT ![v].dropped = verChan'[v].dropped]]_vars

\* C6 witness: a button of a decided view was pressed and not dispatched
C6_Witness ==
  \E v \in Views : verChan[v].content # "pending" /\ verChan[v].dropped > 0

\* C7 (as claimed): once the link was delivered in a ticket, no later message
\* of the ticket is taken as a proof and no link is delivered there again.
C7_NothingAfterDelivered ==
  [][\A c \in DOMAIN channels :
       Delivered(c) =>
         /\ Accepted(posts', c) <= Accepted(posts, c)
         /\ feed' = feed \/ feed'[Len(feed')].chan # c \/ feed'[Len(feed')].kind # "link"]_vars

\* C17 (as claimed): the link of a one-step app is sent into a ticket channel
\* at most once, and only by the handler of an approved attempt (a view).
C17_OneStepDeliveredOnceOnApproval ==
  \A k \in DOMAIN feed :
    (feed[k].kind = "link" /\ feed[k].app \notin V2_APPS_LIST) =>
      /\ feed[k].by \in Views
      /\ \A j \in DOMAIN feed :
           (feed[j].kind = "link" /\ feed[j].chan = feed[k].chan /\ feed[j].app = feed[k].app)
             => j = k

\* A step starts the admin handler r
Handles(r) ==
  /\ r.pc \in {"denied", "error", "prompt", "deliver", "notice", "send1"}
  /\ CopiesIn(r, adm') > CopiesIn(r, adm)

\* C18: a Verify on the panel of a two-step app never sends the link: with a
\* second-step site configured it sends the V2 prompt into the ticket channel
\* and the panel then shows "V1 Approved"; with none configured it only
\* answers with an error, and neither the ticket channel, nor the panels, nor
\* the close button change.
C18_TwoStepApprovalPrompts ==
  /\ [](\A k \in DOMAIN feed :
          (feed[k].by \in Views /\ verChan[feed[k].by].app_name_key \in V2_APPS_LIST)
            => feed[k].kind \in {"prompt", "declined"})
  /\ [](\A v \in Views :
          (verChan[v].app_name_key \in V2_APPS_LIST /\ verChan[v].content = "V1 Approved")
            => /\ verChan[v].app_name_key \in DOMAIN v2_links
               /\ \E k \in DOMAIN feed :
                    feed[k] = Sent(verChan[v].ticket_channel, "prompt", verChan[v].app_name_key, v))
  /\ [][/\ \A r \in BagToSet(adm') :
             (Handles(r) /\ r.op = "verify" /\ r.app \in V2_APPS_LIST) =>
               /\ r.pc \in {"denied", "error", "prompt"}
               /\ r.pc = "error" => r.app \notin DOMAIN v2_links
               /\ r.pc = "prompt" => r.app \in DOMAIN v2_links
               /\ UNCHANGED <<feed, verChan, channels, notices, posts>>
        /\ \A r \in BagToSet(adm) :
             (r.pc = "error" /\ adm' = adm (-) One(r)) =>
               UNCHANGED <<feed, verChan, channels, notices, posts>>]_vars

\* C18 witness: the phase-1 proof of a two-step app was approved and the V2
\* prompt is in the ticket channel
C18_Witness ==
  \E v \in Views :
    /\ verChan[v].app_name_key \in V2_APPS_LIST
    /\ verChan[v].content = "V1 Approved"
    /\ \E k \in DOMAIN feed : feed[k].by = v /\ feed[k].kind = "prompt"

\* C19: the decline handler sends the decline notice into the ticket channel
\* and nothing else: no link, no close button; and a message that on_message
\* took as a phase-1 proof becomes a new pending panel whatever was declined
\* before.
C19_DeclineNotifiesAndAllowsResubmission ==
  [][/\ \A r \in BagToSet(adm) :
          (r.op = "decline" /\ r.pc = "notice" /\ adm' = Moved(adm, r, [r EXCEPT !.pc = "edit"])) =>
            /\ feed' = Append(feed, Sent(r.chan, "declined", r.app, r.view))
            /\ channels' = channels
     /\ \A r \in BagToSet(posts) :
          (r.kind = "v1" /\ r.pc = "forward" /\ posts' = Moved(posts, r, [r EXCEPT !.pc = "ack"])) =>
            /\ Len(verChan') = Len(verChan) + 1
            /\ Live(Len(verChan))' ]_vars

\* C19 witness: an attempt was declined, the requester was notified, and a
\* later panel of the same ticket and app is pending
C19_Witness ==
  \E v \in Views : \E w \in Views :
    /\ v < w
    /\ verChan[v].content = "DECLINED"
    /\ \E k \in DOMAIN feed : feed[k] = Sent(verChan[v].ticket_channel, "declined", verChan[v].app_name_key, v)
    /\ verChan[w].ticket_channel = verChan[v].ticket_channel
    /\ verChan[w].app_name_key = verChan[v].app_name_key
    /\ ~verChan[w].stopped /\ verChan[w].content = "pending"

\* The decisions on app in ticket channel c that were sent into the channel
Decisions(c, app) ==
  {k \in DOMAIN feed : feed[k].chan = c /\ feed[k].app = app
                       /\ feed[k].kind \in {"prompt", "link", "declined"}}
\* The phase-1 proof of a two-step app was approved and nothing was decided since
AwaitingV2(c, app) ==
  \E k \in Decisions(c, app) :
    feed[k].kind = "prompt" /\ \A j \in Decisions(c, app) : j <= k
\* The on_message coroutines that took a message of c for app as a phase-1 proof
TakenAsV1(B, c, app) ==
  BagCardinality([r \in {x \in BagToSet(B) : x.chan = c /\ x.app = app
                                             /\ x.kind = "v1" /\ x.pc = "forward"} |-> B[r]])

\* C20 (as claimed): a message that lacks the attachment or the keyword of the
\* current phase creates no attempt: the coroutine that answers it with the
\* missing-proof notice forwards nothing and changes nothing else, and while a
\* ticket awaits the phase-2 proof of an app no message is taken as a phase-1
\* proof of it (it lacks the "<NAME> KEY" keyword).
C20_DeficientMessageChangesNothing ==
  [][/\ \A r \in BagToSet(posts) :
          (Rejected(r) /\ posts' = posts (-) One(r)) =>
            /\ notices' = notices + 1
            /\ UNCHANGED <<verChan, feed, channels, adm>>
     /\ \A c \in DOMAIN channels : \A app \in AppKeys :
          AwaitingV2(c, app) => TakenAsV1(posts', c, app) <= TakenAsV1(posts, c, app)]_vars

\* C21: a Verify or Decline pressed by a member without manage_guild starts a
\* handler that only answers with the permission error: nothing is sent to the
\* ticket channel, no panel is stopped or edited, no close button is offered,
\* and the view stays live.
C21_NoPermissionChangesNothing ==
  [][/\ \A v \in Views :
          (verify(v, Moderator) \/ decline(v, Moderator)) =>
            /\ \E op \in {"verify", "decline"} :
                 adm' = adm (+) One(Handler(op, "denied", v, verChan[v].ticket_channel,
                                            verChan[v].app_name_key))
            /\ UNCHANGED <<feed, verChan, channels, notices, posts>>
            /\ Live(v)'
     /\ \A r \in BagToSet(adm) :
          (r.pc = "denied" /\ adm' = adm (-) One(r)) =>
            UNCHANGED <<feed, verChan, channels, notices, posts>>]_vars

\* C21 witness: a press without permission is being answered with the error
\* and the panel it was pressed on is still pending and live
C21_Witness ==
  \E r \in BagToSet(adm) :
    r.pc = "denied" /\ Live(r.view) /\ verChan[r.view].content = "pending"

\* ------------------------------------------------------------------------
\* The ticket panel
\* ------------------------------------------------------------------------
\* The step ends the setup call r2 with a send or a kept panel, and no message
\* was posted in the panel channel between its history call and its end
EndsAlone(r2) ==
  /\ r2.pc = "done"
  /\ CopiesIn(r2, setups') > CopiesIn(r2, setups)
  /\ r2.read = nextMsg

\* C22 (as claimed): when a setup_ticket_panel(force_resend=False) call ends,
\* exactly one panel is in the panel channel, whatever was posted there before
\* the call.
C22_SetupKeepsOnePanel ==
  [][\A r2 \in BagToSet(setups') :
       (EndsAlone(r2) /\ ~r2.force_resend) => Cardinality(Panels(panelChan')) = 1]_vars

\* C23 (as claimed): when a setup_ticket_panel(force_resend=True) call ends,
\* exactly one panel is in the panel channel and it is the one the call sent.
C23_ForceResendLeavesOneNewPanel ==
  [][\A r2 \in BagToSet(setups') :
       (EndsAlone(r2) /\ r2.force_resend) =>
         /\ Cardinality(Panels(panelChan')) = 1
         /\ \A k \in Panels(panelChan') : panelChan'[k].id >= r2.read]_vars

\* ------------------------------------------------------------------------
\* Selection and the catalog
\* ------------------------------------------------------------------------
\* The requester of ticket channel c has selected key while the catalog held it
Selected(c, key) ==
  c \in DOMAIN dropdown /\ dropdown[c].locked = key /\ dropdown[c].offered # ""

\* C24 (as claimed): once a key is selected in a ticket, every link sent into
\* the ticket for that key is the link the catalog held when the selection was
\* locked, and a proof message for that key is still taken by on_message,
\* whatever add_app and remove_app did to the key since.
C24_DeliversSelectionSnapshot ==
  [][/\ \A c \in DOMAIN channels : \A key \in AppKeys :
          (Selected(c, key) /\ Len(feed') = Len(feed) + 1
            /\ feed'[Len(feed')].kind = "link"
            /\ feed'[Len(feed')].chan = c /\ feed'[Len(feed')].app = key)
          => feed'[Len(feed')].url = dropdown[c].offered
     /\ \A c \in DOMAIN channels : \A key \in AppKeys :
          (Selected(c, key) /\ on_message(c, key, "RASH TECH", TRUE)) => posts' # posts]_vars

\* C25 (as claimed): picking a key that the catalog does not hold starts no
\* handler that locks the ticket to it.
C25_UnknownKeyRejected ==
  [][\A c \in DOMAIN channels : \A key \in AppKeys :
       (callback(c, key) /\ key \notin DOMAIN apps) =>
         CopiesIn(Handler("callback", "lock", 0, c, key), adm')
           <= CopiesIn(Handler("callback", "lock", 0, c, key), adm)]_vars

\* C29 (as claimed): every proof forwarded to the verification channel is for
\* the key the ticket it came from is locked to.
C29_AttemptForSelectedKey ==
  \A k \in DOMAIN verChan :
    /\ verChan[k].ticket_channel \in DOMAIN dropdown
    /\ verChan[k].app_name_key = dropdown[verChan[k].ticket_channel].locked

\* The on_message coroutines that took a message of c for app as a phase-2 proof
TakenAsV2(B, c, app) ==
  BagCardinality([r \in {x \in BagToSet(B) : x.chan = c /\ x.app = app
                                             /\ x.kind = "v2" /\ x.pc = "forward"} |-> B[r]])

\* C27 (as claimed): a message is taken as the phase-2 proof of an app only
\* while the ticket awaits it, that is after the V2 prompt for the app was
\* sent into the ticket channel.
C27_Phase2OnlyAfterPhase1Approval ==
  [][\A c \in DOMAIN channels : \A app \in AppKeys :
       TakenAsV2(posts', c, app) > TakenAsV2(posts, c, app) => AwaitingV2(c, app)]_vars

\* ------------------------------------------------------------------------
\* create_transcript
\* ------------------------------------------------------------------------
\* The lines of the chunks, concatenated in order
RECURSIVE Flatten(_)
Flatten(chunks) == IF chunks = <<>> THEN <<>> ELSE Head(chunks) \o Flatten(Tail(chunks))
\* The closures that hold the value create_transcript returned to them
Transcribed == {r \in BagToSet(cls) : r.pc \in {"meta", "part", "delete", "done"}
                                      \/ (r.pc = "failed" /\ r.at # "history")}

\* C11: the chunks create_transcript returned for a channel, concatenated in
\* order, are the rendered lines of the channel's history, each exactly once
\* and oldest first; a chunk is a sequence of whole lines.
C11_ChunksReproduceHistory ==
  \A r \in Transcribed : Flatten(r.parts) = history[r.chan]

\* C11 witness: a history of two lines that was split into two chunks
C11_Witness ==
  \E r \in Transcribed : Len(history[r.chan]) = 2 /\ Len(r.parts) = 2 /\ r.parts[1] # <<>>

\* C12 (as claimed): every chunk create_transcript returned is at most 4000
\* characters long, the separator after each line included.
C12_ChunkWithinLimit ==
  \A r \in Transcribed : \A i \in 1..Len(r.parts) : TextLen(r.parts[i]) <= CHUNK_LIMIT

\* C26 (as claimed): the metadata of a closure names the author and the time
\* of the oldest message of the channel, and for a channel without messages
\* the requester the channel was created for and the time it was created.
C26_MetadataNamesOpener ==
  \A r \in Transcribed :
    r.chan \in DOMAIN channels =>
      IF history[r.chan] # <<>>
      THEN /\ r.meta.opener = history[r.chan][1].author
           /\ r.meta.opened = history[r.chan][1].t
      ELSE /\ r.meta.opener = channels[r.chan].owner
           /\ r.meta.opened = channels[r.chan].created

\* C31 (as claimed): create_transcript returns no empty chunk, and no chunk at
\* all for a channel without messages.
C31_NoEmptyChunk ==
  \A r \in Transcribed :
    /\ \A i \in 1..Len(r.parts) : r.parts[i] # <<>>
    /\ history[r.chan] = <<>> => r.parts = <<>>

====
